---- MODULE Spec2Model ----
(***************************************************************************)
(* Flight-dynamics core of rocket-aero.py: the Rocket object, its update   *)
(* step and telemetry, and the control writes main() makes between steps.  *)
(*                                                                         *)
(* The source computes in IEEE-754 doubles.  The model computes in scaled  *)
(* integers, every product and quotient rounded to the nearest unit:       *)
(*   time dt            0.1 s          mass            0.1 kg              *)
(*   thrust, forces     1 N            gravity, accel  0.01 m/s^2          *)
(*   velocity           0.01 m/s       position        0.01 m              *)
(*   angles             0.01 deg       angular vel.    0.01 deg/s          *)
(*   air density        0.001 kg/m^3   pressure        0.01 Pa             *)
(*   drag coefficient   0.01           unit vectors    0.001               *)
(*   temperature        1 K            stress, twr, mach   0.001           *)
(* Angles are kept in a floating-point format with a 13-bit significand    *)
(* (operator Fl), so that the rounding of Python's float % is part of the  *)
(* model.                                                                  *)
(***************************************************************************)
EXTENDS Integers, Sequences, FiniteSets, TLC

VARIABLES mass, fuel_mass, dry_mass, velocity, position, angular_velocity,
          thrust, drag_coefficient, engine_temperature, structural_stress,
          max_q, pitch, yaw, roll, telemetry, step, ticks

vars == <<mass, fuel_mass, dry_mass, velocity, position, angular_velocity,
          thrust, drag_coefficient, engine_temperature, structural_stress,
          max_q, pitch, yaw, roll, telemetry, step, ticks>>

rocket == <<mass, fuel_mass, dry_mass, velocity, position, angular_velocity,
            thrust, drag_coefficient, engine_temperature, structural_stress,
            max_q, pitch, yaw, roll>>

---------------------------------------------------------------------------
(* Bounds of the model. *)

\* Actions (control writes and update calls) in one behaviour.
MaxTicks == 3
\* Largest stored speed component and coordinate (0.01 m/s, 0.01 m) for
\* which an update step is explored.
MaxSpeed == 26000
MaxCoord == 2000000
\* Longest free fall explored, in seconds.
MaxFall == 10

---------------------------------------------------------------------------
(* Program constants (Rocket.__init__ and main). *)

max_thrust == 200000
reference_area == 10
fuel_consumption_rate == 5
InitDryMass == 20000
InitThrust == 75000
InitDragCoefficient == 45
InitAltitude == 50000
AmbientTemperature == 300
TelemetryAirDensity == 1225
SpeedOfSound == 343
StandardGravity == 981
ThrottleStep == 1000
DryMassStep == 200
MinDryMass == 5000
MaxDryMass == 100000
DragStep == 2
MinDragCoefficient == 10
MaxDragCoefficient == 200
RotationSpeed == 30

---------------------------------------------------------------------------
(* Arithmetic. *)

\* F applied to the value of x, with x evaluated once.
Bind(x, F(_)) == CHOOSE r \in {F(v) : v \in {x}} : TRUE

Abs(x) == IF x < 0 THEN -x ELSE x
Max(a, b) == IF a >= b THEN a ELSE b
Min(a, b) == IF a <= b THEN a ELSE b

\* a / c rounded to the nearest integer (c > 0).
RDiv(a, c) == (2 * a + c) \div (2 * c)

\* a * b / c rounded to the nearest integer without forming a * b (c > 0).
MulDivR(a, b, c) ==
    Bind(a, LAMBDA x : (x \div c) * b + ((x % c) * b + c \div 2) \div c)

RECURSIVE ISqrtRec(_, _, _)
ISqrtRec(n, lo, hi) ==
    IF lo >= hi THEN lo
    ELSE LET mid == (lo + hi + 1) \div 2
         IN IF mid * mid <= n THEN ISqrtRec(n, mid, hi)
                              ELSE ISqrtRec(n, lo, mid - 1)

\* Floor of the square root of n, 0 <= n < 2^31.
ISqrt(n) == ISqrtRec(n, 0, 46340)

Dot(a, b) ==
    Bind(a, LAMBDA x : Bind(b, LAMBDA y :
    x[1] * y[1] + x[2] * y[2] + x[3] * y[3]))
VAdd(a, b) ==
    Bind(a, LAMBDA x : Bind(b, LAMBDA y :
    <<x[1] + y[1], x[2] + y[2], x[3] + y[3]>>))
MaxAbs(v) == Max(Abs(v[1]), Max(Abs(v[2]), Abs(v[3])))

\* Scale at which the squares of v's components fit the integer width.
RECURSIVE NormScale(_)
NormScale(m) == IF m <= 26000 THEN 1 ELSE 10 * NormScale(m \div 10)

\* np.linalg.norm of a 3-vector; a vector along one axis has the magnitude
\* of its component.
Norm(v) ==
    Bind(v, LAMBDA x :
    Bind(NormScale(MaxAbs(x)), LAMBDA s :
    Bind(<<RDiv(x[1], s), RDiv(x[2], s), RDiv(x[3], s)>>, LAMBDA w :
    IF Abs(w[1]) + Abs(w[2]) + Abs(w[3]) = MaxAbs(w)
    THEN s * MaxAbs(w)
    ELSE s * ISqrt(Dot(w, w)))))

\* np.cross of two vectors whose product is rescaled by 1000.
Cross(a, b) ==
    Bind(a, LAMBDA x : Bind(b, LAMBDA y :
    <<RDiv(x[2] * y[3] - x[3] * y[2], 1000),
      RDiv(x[3] * y[1] - x[1] * y[3], 1000),
      RDiv(x[1] * y[2] - x[2] * y[1], 1000)>>))

\* Spacing of the representable angles around x: 13 significant bits.
RECURSIVE Ulp(_)
Ulp(x) == IF Abs(x) < 8192 THEN 1 ELSE 2 * Ulp(Abs(x) \div 2)

\* Round-to-nearest, ties-to-even, of an exact result x.
Fl(x) ==
    Bind(Ulp(x), LAMBDA u :
        LET q == x \div u
            r == x % u
        IN IF 2 * r < u THEN q * u
           ELSE IF 2 * r > u THEN (q + 1) * u
           ELSE IF q % 2 = 0 THEN q * u ELSE (q + 1) * u)

\* C fmod: exact, with the sign of x.
FMod(x, m) == IF x >= 0 THEN x % m ELSE -((-x) % m)

\* Python's float x % m for m > 0: fmod, then + m (a rounded float addition)
\* when the remainder is negative.
PyMod(x, m) == Bind(FMod(x, m), LAMBDA r : IF r < 0 THEN Fl(r + m) ELSE r)

SinTable ==
    <<0, 17, 35, 52, 70, 87, 105, 122, 139, 156, 174, 191, 208,
      225, 242, 259, 276, 292, 309, 326, 342, 358, 375, 391, 407, 423,
      438, 454, 469, 485, 500, 515, 530, 545, 559, 574, 588, 602, 616,
      629, 643, 656, 669, 682, 695, 707, 719, 731, 743, 755, 766, 777,
      788, 799, 809, 819, 829, 839, 848, 857, 866, 875, 883, 891, 899,
      906, 914, 921, 927, 934, 940, 946, 951, 956, 961, 966, 970, 974,
      978, 982, 985, 988, 990, 993, 995, 996, 998, 999, 999, 1000, 1000>>

\* 1000 * sin of d whole degrees, 0 <= d < 360.
SinDeg(d) ==
    IF d <= 90 THEN SinTable[d + 1]
    ELSE IF d <= 180 THEN SinTable[180 - d + 1]
    ELSE IF d <= 270 THEN -SinTable[d - 180 + 1]
    ELSE -SinTable[360 - d + 1]

\* math.sin / math.cos of math.radians(a), a in 0.01 deg.
Sin(a) == SinDeg(RDiv(a, 100) % 360)
Cos(a) == SinDeg((RDiv(a, 100) + 90) % 360)

MatEntry(A, B, i, j) ==
    RDiv(A[i][1] * B[1][j] + A[i][2] * B[2][j] + A[i][3] * B[3][j], 1000)

\* The matrix product A @ B of 3x3 matrices of entries in 0.001.
MatMul(A, B) ==
    Bind(A, LAMBDA X : Bind(B, LAMBDA Y :
    <<<<MatEntry(X, Y, 1, 1), MatEntry(X, Y, 1, 2), MatEntry(X, Y, 1, 3)>>,
      <<MatEntry(X, Y, 2, 1), MatEntry(X, Y, 2, 2), MatEntry(X, Y, 2, 3)>>,
      <<MatEntry(X, Y, 3, 1), MatEntry(X, Y, 3, 2), MatEntry(X, Y, 3, 3)>>>>))

VecEntry(A, v, i) == RDiv(A[i][1] * v[1] + A[i][2] * v[2] + A[i][3] * v[3], 1000)

MatVec(A, v) ==
    Bind(A, LAMBDA X :
    <<VecEntry(X, v, 1), VecEntry(X, v, 2), VecEntry(X, v, 3)>>)

---------------------------------------------------------------------------
(* Rocket: the pure methods.  s is the record of the object's fields. *)

Zero3 == <<0, 0, 0>>

Self ==
    [mass |-> mass, fuel_mass |-> fuel_mass, dry_mass |-> dry_mass,
     velocity |-> velocity, position |-> position,
     angular_velocity |-> angular_velocity, thrust |-> thrust,
     drag_coefficient |-> drag_coefficient,
     engine_temperature |-> engine_temperature,
     structural_stress |-> structural_stress, max_q |-> max_q,
     pitch |-> pitch, yaw |-> yaw, roll |-> roll]

\* Rocket.__init__
NewRocket ==
    [mass |-> InitDryMass + 30000, fuel_mass |-> 30000, dry_mass |-> InitDryMass,
     velocity |-> Zero3, position |-> <<0, InitAltitude, 0>>,
     angular_velocity |-> Zero3, thrust |-> InitThrust,
     drag_coefficient |-> InitDragCoefficient,
     engine_temperature |-> AmbientTemperature,
     structural_stress |-> 0, max_q |-> 0,
     pitch |-> 0, yaw |-> 0, roll |-> 0]

\* Ry @ Rx @ Rz
get_rotation_matrix(s) ==
    LET cos_p == Cos(s.pitch)  sin_p == Sin(s.pitch)
        cos_y == Cos(s.yaw)    sin_y == Sin(s.yaw)
        cos_r == Cos(s.roll)   sin_r == Sin(s.roll)
        Rx == <<<<1000, 0, 0>>, <<0, cos_p, -sin_p>>, <<0, sin_p, cos_p>>>>
        Ry == <<<<cos_y, 0, sin_y>>, <<0, 1000, 0>>, <<-sin_y, 0, cos_y>>>>
        Rz == <<<<cos_r, -sin_r, 0>>, <<sin_r, cos_r, 0>>, <<0, 0, 1000>>>>
    IN Bind(MatMul(Ry, Rx), LAMBDA RyRx : MatMul(RyRx, Rz))

get_thrust_vector(s) ==
    Bind(get_rotation_matrix(s), LAMBDA rotation_matrix :
    MatVec(rotation_matrix, <<0, 1000, 0>>))

\* velocity / v_magnitude, in 0.001.
Normalized(v) ==
    Bind(Norm(v), LAMBDA n :
    <<RDiv(v[1] * 1000, n), RDiv(v[2] * 1000, n), RDiv(v[3] * 1000, n)>>)

\* magnitude * direction / |direction|
Along(magnitude, direction) ==
    Bind(Norm(direction), LAMBDA n :
    <<MulDivR(magnitude, direction[1], n), MulDivR(magnitude, direction[2], n),
      MulDivR(magnitude, direction[3], n)>>)

\* 0.5 * air_density * v_magnitude**2, in 0.01 Pa.
calculate_dynamic_pressure(s, air_density) ==
    MulDivR(Dot(s.velocity, s.velocity), air_density, 200000)

\* Variant of calculate_drag: the guard is v_magnitude > 0.
calculate_drag_unguarded(s, air_density) ==
    IF Dot(s.velocity, s.velocity) > 0
    THEN Bind(MulDivR(calculate_dynamic_pressure(s, air_density),
                      s.drag_coefficient * reference_area, 10000),
              LAMBDA drag_force_magnitude :
                  Along(drag_force_magnitude,
                        <<-s.velocity[1], -s.velocity[2], -s.velocity[3]>>))
    ELSE Zero3

\* Zero below 0.1 m/s, else magnitude q * Cd * A along -velocity.
calculate_drag(s, air_density) ==
    IF Dot(s.velocity, s.velocity) > 10 * 10
    THEN Bind(MulDivR(calculate_dynamic_pressure(s, air_density),
                      s.drag_coefficient * reference_area, 10000),
              LAMBDA drag_force_magnitude :
                  Along(drag_force_magnitude,
                        <<-s.velocity[1], -s.velocity[2], -s.velocity[3]>>))
    ELSE Zero3

\* sin(asin(x)) = x on [0, 1], so lift_coefficient = 2 * pi * min(|c|, 1);
\* cross(velocity, c) and cross(vel_normalized, c) have the same direction.
calculate_lift(s, air_density) ==
    IF Dot(s.velocity, s.velocity) > 100 * 100
    THEN Bind(Normalized(s.velocity), LAMBDA vel_normalized :
         Bind(Cross(vel_normalized, get_thrust_vector(s)), LAMBDA cross_product :
         Bind(Norm(cross_product), LAMBDA cross_magnitude :
         Bind(Cross(vel_normalized, cross_product), LAMBDA lift_direction :
             IF cross_magnitude > 10 /\ Dot(lift_direction, lift_direction) > 0
             THEN Along(MulDivR(MulDivR(calculate_dynamic_pressure(s, air_density),
                                        Min(cross_magnitude, 1000) * reference_area,
                                        10000),
                                6283, 1000),
                        lift_direction)
             ELSE Zero3))))
    ELSE Zero3

\* degrees(acos(x / 1000)) in whole degrees: cos decreases on [0, 180].
\* The largest d in lo..hi with cos(d) > x / 1000, or lo.
RECURSIVE ACosRec(_, _, _)
ACosRec(x, lo, hi) ==
    IF lo >= hi THEN lo
    ELSE LET mid == (lo + hi + 1) \div 2
         IN IF SinDeg((mid + 90) % 360) > x THEN ACosRec(x, mid, hi)
                                           ELSE ACosRec(x, lo, mid - 1)

ACosDeg(x) == ACosRec(x, 0, 180)

get_angle_of_attack(s) ==
    IF Dot(s.velocity, s.velocity) > 10 * 10
    THEN Bind(RDiv(Dot(get_thrust_vector(s), Normalized(s.velocity)), 1000),
              LAMBDA dot_product :
                  100 * ACosDeg(Max(-1000, Min(1000, dot_product))))
    ELSE 0

\* Scalar times a unit vector (0.001).
Scale(k, u) ==
    Bind(u, LAMBDA d :
    <<MulDivR(k, d[1], 1000), MulDivR(k, d[2], 1000), MulDivR(k, d[3], 1000)>>)

\* Variant of get_telemetry: the dynamic pressure reported is the peak.
get_telemetry_peak(s) ==
    Bind(Norm(s.velocity), LAMBDA v_magnitude :
    Bind(get_thrust_vector(s), LAMBDA thrust_direction :
        [valid |-> TRUE,
         drag |-> Norm(calculate_drag(s, TelemetryAirDensity)),
         lift |-> Norm(calculate_lift(s, TelemetryAirDensity)),
         thrust |-> Norm(Scale(s.thrust, thrust_direction)),
         velocity |-> v_magnitude,
         altitude |-> s.position[2],
         aoa |-> get_angle_of_attack(s),
         dynamic_pressure |-> s.max_q,
         max_q |-> s.max_q,
         g_force |-> s.structural_stress,
         temperature |-> s.engine_temperature,
         fuel |-> s.fuel_mass,
         twr |-> IF s.mass > 0
                 THEN MulDivR(s.thrust, 1000, RDiv(s.mass * StandardGravity, 1000))
                 ELSE 0,
         mach |-> RDiv(v_magnitude * 10, SpeedOfSound),
         thrust_direction |-> thrust_direction]))

get_telemetry(s) ==
    Bind(Norm(s.velocity), LAMBDA v_magnitude :
    Bind(get_thrust_vector(s), LAMBDA thrust_direction :
        [valid |-> TRUE,
         drag |-> Norm(calculate_drag(s, TelemetryAirDensity)),
         lift |-> Norm(calculate_lift(s, TelemetryAirDensity)),
         thrust |-> Norm(Scale(s.thrust, thrust_direction)),
         velocity |-> v_magnitude,
         altitude |-> s.position[2],
         aoa |-> get_angle_of_attack(s),
         dynamic_pressure |-> calculate_dynamic_pressure(s, TelemetryAirDensity),
         max_q |-> s.max_q,
         g_force |-> s.structural_stress,
         temperature |-> s.engine_temperature,
         fuel |-> s.fuel_mass,
         twr |-> IF s.mass > 0
                 THEN MulDivR(s.thrust, 1000, RDiv(s.mass * StandardGravity, 1000))
                 ELSE 0,
         mach |-> RDiv(v_magnitude * 10, SpeedOfSound),
         thrust_direction |-> thrust_direction]))

\* main's telemetry variable before the first update call.
NoTelemetry ==
    [valid |-> FALSE, drag |-> 0, lift |-> 0, thrust |-> 0, velocity |-> 0,
     altitude |-> 0, aoa |-> 0, dynamic_pressure |-> 0, max_q |-> 0,
     g_force |-> 0, temperature |-> 0, fuel |-> 0, twr |-> 0, mach |-> 0,
     thrust_direction |-> Zero3]

---------------------------------------------------------------------------
(* Rocket.update. *)

\* Variant of is_noop: only a negative dt returns early.
is_noop_strict(dt) == dt < 0

\* The early return of update.
is_noop(dt) == dt <= 0

\* Variant of burn: the remaining fuel is not clamped at 0.
burn_unclamped(s, dt) ==
    IF s.thrust > 0 /\ s.fuel_mass > 0
    THEN Bind(s.fuel_mass - fuel_consumption_rate * dt, LAMBDA fuel :
             [fuel_mass |-> fuel,
              mass |-> s.dry_mass + fuel,
              thrust |-> IF fuel <= 0 THEN 0 ELSE s.thrust])
    ELSE [fuel_mass |-> s.fuel_mass,
          mass |-> s.dry_mass + s.fuel_mass,
          thrust |-> s.thrust]

\* Variant of burn: the thrust is not cut when the fuel runs out.
burn_no_cutoff(s, dt) ==
    IF s.thrust > 0 /\ s.fuel_mass > 0
    THEN Bind(Max(0, s.fuel_mass - fuel_consumption_rate * dt), LAMBDA fuel :
             [fuel_mass |-> fuel,
              mass |-> s.dry_mass + fuel,
              thrust |-> s.thrust])
    ELSE [fuel_mass |-> s.fuel_mass,
          mass |-> s.dry_mass + s.fuel_mass,
          thrust |-> s.thrust]

\* Variant of burn: fuel is consumed whether or not the engine is on.
burn_always(s, dt) ==
    IF s.fuel_mass > 0
    THEN Bind(Max(0, s.fuel_mass - fuel_consumption_rate * dt), LAMBDA fuel :
             [fuel_mass |-> fuel,
              mass |-> s.dry_mass + fuel,
              thrust |-> IF fuel <= 0 THEN 0 ELSE s.thrust])
    ELSE [fuel_mass |-> s.fuel_mass,
          mass |-> s.dry_mass + s.fuel_mass,
          thrust |-> s.thrust]

\* Variant of burn: the mass is recomputed before the fuel is deducted.
burn_stale_mass(s, dt) ==
    IF s.thrust > 0 /\ s.fuel_mass > 0
    THEN Bind(Max(0, s.fuel_mass - fuel_consumption_rate * dt), LAMBDA fuel :
             [fuel_mass |-> fuel,
              mass |-> s.dry_mass + s.fuel_mass,
              thrust |-> IF fuel <= 0 THEN 0 ELSE s.thrust])
    ELSE [fuel_mass |-> s.fuel_mass,
          mass |-> s.dry_mass + s.fuel_mass,
          thrust |-> s.thrust]

\* Propulsion: fuel burn, mass, thrust cutoff.  fuel_used = rate * dt is
\* 5 kg/s * dt, i.e. 5 * dt in 0.1 kg for dt in 0.1 s.
burn(s, dt) ==
    IF s.thrust > 0 /\ s.fuel_mass > 0
    THEN Bind(Max(0, s.fuel_mass - fuel_consumption_rate * dt), LAMBDA fuel :
             [fuel_mass |-> fuel,
              mass |-> s.dry_mass + fuel,
              thrust |-> IF fuel <= 0 THEN 0 ELSE s.thrust])
    ELSE [fuel_mass |-> s.fuel_mass,
          mass |-> s.dry_mass + s.fuel_mass,
          thrust |-> s.thrust]

\* angle += w * dt; angle = angle % 360
wrap_angle(angle, w, dt) == PyMod(Fl(angle + Fl(RDiv(w * dt, 10))), 36000)

\* angular_velocity *= 0.92
decay(w) ==
    <<Fl(MulDivR(w[1], 92, 100)), Fl(MulDivR(w[2], 92, 100)),
      Fl(MulDivR(w[3], 92, 100))>>

\* Variant of watermark: the current reading replaces the peak.
watermark_last(mq, dynamic_pressure) == dynamic_pressure

\* self.max_q = max(self.max_q, dynamic_pressure)
watermark(mq, dynamic_pressure) == Max(mq, dynamic_pressure)

\* Variant of heat: the engine stays at the ambient temperature.
heat_ambient(t) == AmbientTemperature

\* 300 + (thrust / max_thrust) * 2000
heat(t) == AmbientTemperature + MulDivR(t, 2000, max_thrust)

\* Variant of ground_collision: a reflection without restitution and damping.
ground_collision_elastic(p, v) ==
    IF p[2] < 0
    THEN [position |-> <<p[1], 0, p[3]>>,
          velocity |-> IF v[2] < 0 THEN <<v[1], -v[2], v[3]>> ELSE v]
    ELSE [position |-> p, velocity |-> v]

\* Variant of ground_collision: the reflection without the clamp.
ground_collision_unclamped(p, v) ==
    IF p[2] < 0
    THEN [position |-> p,
          velocity |-> IF v[2] < 0
                       THEN <<MulDivR(v[1], 7, 10), MulDivR(-v[2], 3, 10),
                              MulDivR(v[3], 7, 10)>>
                       ELSE v]
    ELSE [position |-> p, velocity |-> v]

\* Ground plane y = 0: clamp, and reflect a downward velocity.
ground_collision(p, v) ==
    IF p[2] < 0
    THEN [position |-> <<p[1], 0, p[3]>>,
          velocity |-> IF v[2] < 0
                       THEN <<MulDivR(v[1], 7, 10), MulDivR(-v[2], 3, 10),
                              MulDivR(v[3], 7, 10)>>
                       ELSE v]
    ELSE [position |-> p, velocity |-> v]

\* Locals of an update call that the state does not keep.
NoLocals ==
    [thrust_vector |-> Zero3, total_force |-> Zero3, acceleration |-> Zero3,
     v_int |-> Zero3, p_int |-> Zero3, emitted |-> FALSE]

\* Propulsion, orientation and the decay of the angular velocity.
propel(s, dt) ==
    Bind(burn(s, dt), LAMBDA b :
        [s EXCEPT !.fuel_mass = b.fuel_mass, !.mass = b.mass, !.thrust = b.thrust,
                  !.pitch = wrap_angle(s.pitch, s.angular_velocity[1], dt),
                  !.yaw = wrap_angle(s.yaw, s.angular_velocity[2], dt),
                  !.roll = wrap_angle(s.roll, s.angular_velocity[3], dt),
                  !.angular_velocity = decay(s.angular_velocity)])

\* thrust_vector + drag + lift + gravity_force
compose(s, thrust_vector, air_density, gravity) ==
    VAdd(VAdd(VAdd(thrust_vector, calculate_drag(s, air_density)),
              calculate_lift(s, air_density)),
         <<0, RDiv(-gravity * s.mass, 1000), 0>>)

\* Variant of accelerate: the force is divided by the dry mass.
accelerate_dry(s, total_force) ==
    IF s.dry_mass > 0
    THEN <<MulDivR(total_force[1], 1000, s.dry_mass),
           MulDivR(total_force[2], 1000, s.dry_mass),
           MulDivR(total_force[3], 1000, s.dry_mass)>>
    ELSE Zero3

\* total_force / mass, in 0.01 m/s^2
accelerate(s, total_force) ==
    IF s.mass > 0
    THEN <<MulDivR(total_force[1], 1000, s.mass),
           MulDivR(total_force[2], 1000, s.mass),
           MulDivR(total_force[3], 1000, s.mass)>>
    ELSE Zero3

\* (force_magnitude / mass) / 9.81
stress(s, total_force) ==
    IF s.mass > 0
    THEN MulDivR(MulDivR(Norm(total_force), 1000, s.mass), 1000, StandardGravity)
    ELSE 0

\* a += b * dt
advance(a, b, dt) ==
    <<a[1] + RDiv(b[1] * dt, 10), a[2] + RDiv(b[2] * dt, 10),
      a[3] + RDiv(b[3] * dt, 10)>>

\* The body of update for dt > 0: the post-state s and the locals loc.
integrate(s0, dt, air_density, gravity) ==
    Bind(propel(s0, dt), LAMBDA s1 :
    Bind(Scale(s1.thrust, get_thrust_vector(s1)), LAMBDA thrust_vector :
    Bind(compose(s1, thrust_vector, air_density, gravity), LAMBDA total_force :
    Bind(accelerate(s1, total_force), LAMBDA acceleration :
    Bind(advance(s1.velocity, acceleration, dt), LAMBDA v_int :
    Bind(advance(s1.position, v_int, dt), LAMBDA p_int :
    Bind(ground_collision(p_int, v_int), LAMBDA c :
        [s |-> [s1 EXCEPT
                   !.max_q = watermark(s1.max_q,
                                       calculate_dynamic_pressure(s1, air_density)),
                   !.structural_stress = stress(s1, total_force),
                   !.engine_temperature = heat(s1.thrust),
                   !.velocity = c.velocity,
                   !.position = c.position],
         loc |-> [thrust_vector |-> thrust_vector, total_force |-> total_force,
                  acceleration |-> acceleration, v_int |-> v_int,
                  p_int |-> p_int, emitted |-> s1.thrust > 0]])))))))

update(s, dt, air_density, gravity) ==
    IF is_noop(dt) THEN [s |-> s, loc |-> NoLocals]
    ELSE integrate(s, dt, air_density, gravity)

---------------------------------------------------------------------------
(* main: the control writes of the key handlers. *)

throttle_down(t) == Max(0, t - ThrottleStep)
\* Variant of throttle_up: no clamp at max_thrust.
throttle_up_unclamped(t) == t + ThrottleStep
throttle_up(t) == Min(max_thrust, t + ThrottleStep)
dry_mass_down(m) == Max(MinDryMass, m - DryMassStep)
dry_mass_up(m) == Min(MaxDryMass, m + DryMassStep)
drag_down(c) == Max(MinDragCoefficient, c - DragStep)
drag_up(c) == Min(MaxDragCoefficient, c + DragStep)

\* rotation_speed * (clock.get_time() / 1000.0) * 10, in 0.01 deg/s, for a
\* frame of ms milliseconds.
spin(ms) == RotationSpeed * ms

---------------------------------------------------------------------------
(* The state machine. *)

\* Arguments of update: dt of -1 s, 0 (paused), 0.1 s, 1 s, 10 s.
DtValues == {-10, 0, 1, 10, 100}
AirDensities == {0, 1225}
Gravities == {StandardGravity}
\* clock.get_time() of a frame, ms.
FrameTimes == {16, 17}

\* Throttle settings and fuel levels of the states the exploration starts
\* from: main's throttle keys reach every multiple of 1000 in [0, max_thrust]
\* while the simulation is paused, and burning reaches the fuel levels.
InitThrusts == {ThrottleStep, InitThrust, max_thrust}
InitFuels == {30000, 50, 1}

NoStep(op) == [op |-> op, dt |-> 0, air_density |-> 0, gravity |-> 0, loc |-> NoLocals]

Install(s) ==
    /\ mass' = s.mass
    /\ fuel_mass' = s.fuel_mass
    /\ dry_mass' = s.dry_mass
    /\ velocity' = s.velocity
    /\ position' = s.position
    /\ angular_velocity' = s.angular_velocity
    /\ thrust' = s.thrust
    /\ drag_coefficient' = s.drag_coefficient
    /\ engine_temperature' = s.engine_temperature
    /\ structural_stress' = s.structural_stress
    /\ max_q' = s.max_q
    /\ pitch' = s.pitch
    /\ yaw' = s.yaw
    /\ roll' = s.roll

Init ==
    \E t \in InitThrusts, f \in InitFuels :
        /\ mass = NewRocket.dry_mass + f
        /\ fuel_mass = f
        /\ dry_mass = NewRocket.dry_mass
        /\ velocity = NewRocket.velocity
        /\ position = NewRocket.position
        /\ angular_velocity = NewRocket.angular_velocity
        /\ thrust = t
        /\ drag_coefficient = NewRocket.drag_coefficient
        /\ engine_temperature = NewRocket.engine_temperature
        /\ structural_stress = NewRocket.structural_stress
        /\ max_q = NewRocket.max_q
        /\ pitch = NewRocket.pitch
        /\ yaw = NewRocket.yaw
        /\ roll = NewRocket.roll
        /\ telemetry = NoTelemetry
        /\ step = NoStep("init")
        /\ ticks = 0

Tick == ticks < MaxTicks /\ ticks' = ticks + 1

InRange(v, bound) == Abs(v[1]) <= bound /\ Abs(v[2]) <= bound /\ Abs(v[3]) <= bound

\* telemetry = rocket.update(dt, air_density, gravity)
Update ==
    \E dt \in DtValues, air_density \in AirDensities, gravity \in Gravities :
        /\ Tick
        /\ \E u \in {update(Self, dt, air_density, gravity)} :
               /\ InRange(u.loc.v_int, MaxSpeed)
               /\ InRange(u.loc.p_int, MaxCoord)
               /\ Install(u.s)
               /\ telemetry' = get_telemetry(u.s)
               /\ step' = [op |-> "update", dt |-> dt, air_density |-> air_density,
                           gravity |-> gravity, loc |-> u.loc]

\* A control write of main's key handling: the call's locals are gone and
\* main's telemetry variable keeps the last update's snapshot.
Written(op) == step' = NoStep(op) /\ UNCHANGED telemetry

KeyUp ==
    /\ Tick
    /\ \E ms \in FrameTimes :
           Install([Self EXCEPT !.angular_velocity[1] = @ - spin(ms)])
    /\ Written("K_UP")
KeyDown ==
    /\ Tick
    /\ \E ms \in FrameTimes :
           Install([Self EXCEPT !.angular_velocity[1] = @ + spin(ms)])
    /\ Written("K_DOWN")
KeyLeft ==
    /\ Tick
    /\ \E ms \in FrameTimes :
           Install([Self EXCEPT !.angular_velocity[2] = @ - spin(ms)])
    /\ Written("K_LEFT")
KeyRight ==
    /\ Tick
    /\ \E ms \in FrameTimes :
           Install([Self EXCEPT !.angular_velocity[2] = @ + spin(ms)])
    /\ Written("K_RIGHT")
Key1 ==
    /\ Tick
    /\ \E ms \in FrameTimes :
           Install([Self EXCEPT !.angular_velocity[3] = @ - spin(ms)])
    /\ Written("K_1")
Key2 ==
    /\ Tick
    /\ \E ms \in FrameTimes :
           Install([Self EXCEPT !.angular_velocity[3] = @ + spin(ms)])
    /\ Written("K_2")
KeyW ==
    /\ Tick
    /\ Install([Self EXCEPT !.dry_mass = dry_mass_down(@),
                            !.mass = dry_mass_down(dry_mass) + fuel_mass])
    /\ Written("K_w")
KeyS ==
    /\ Tick
    /\ Install([Self EXCEPT !.dry_mass = dry_mass_up(@),
                            !.mass = dry_mass_up(dry_mass) + fuel_mass])
    /\ Written("K_s")
KeyA ==
    /\ Tick
    /\ Install([Self EXCEPT !.thrust = throttle_down(@)])
    /\ Written("K_a")
KeyD ==
    /\ Tick
    /\ Install([Self EXCEPT !.thrust = throttle_up(@)])
    /\ Written("K_d")
KeyZ ==
    /\ Tick
    /\ Install([Self EXCEPT !.drag_coefficient = drag_down(@)])
    /\ Written("K_z")
KeyX ==
    /\ Tick
    /\ Install([Self EXCEPT !.drag_coefficient = drag_up(@)])
    /\ Written("K_x")
\* rocket = Rocket()
KeyR ==
    /\ Tick
    /\ Install(NewRocket)
    /\ Written("K_r")

Next ==
    \/ Update
    \/ KeyUp \/ KeyDown \/ KeyLeft \/ KeyRight \/ Key1 \/ Key2
    \/ KeyW \/ KeyS \/ KeyA \/ KeyD \/ KeyZ \/ KeyX
    \/ KeyR

Spec == Init /\ [][Next]_vars

---------------------------------------------------------------------------
(* Free fall: update called with the engine off, in vacuum, until the first
   ground contact.  Here ticks counts the elapsed seconds. *)

\* Step sizes of 1 s, 2 s and 3 s.
FallDts == {10, 20, 30}
FallDryMasses == {InitDryMass, MinDryMass}

\* The rocket's fields are those of s.
Holds(s) ==
    /\ mass = s.mass
    /\ fuel_mass = s.fuel_mass
    /\ dry_mass = s.dry_mass
    /\ velocity = s.velocity
    /\ position = s.position
    /\ angular_velocity = s.angular_velocity
    /\ thrust = s.thrust
    /\ drag_coefficient = s.drag_coefficient
    /\ engine_temperature = s.engine_temperature
    /\ structural_stress = s.structural_stress
    /\ max_q = s.max_q
    /\ pitch = s.pitch
    /\ yaw = s.yaw
    /\ roll = s.roll

\* A new rocket throttled down to 0 (key A) with the dry mass d (keys W, S)
\* and f of fuel left.
FreeFallInit ==
    \E f \in InitFuels, d \in FallDryMasses :
        /\ Holds([NewRocket EXCEPT !.thrust = 0, !.fuel_mass = f,
                                   !.dry_mass = d, !.mass = d + f])
        /\ telemetry = NoTelemetry
        /\ step = NoStep("init")
        /\ ticks = 0

\* update(dt, 0, 9.81) of a rocket above the ground, the call's locals u.
Called(u, dt) ==
    /\ position[2] > 0
    /\ ticks + dt \div 10 <= MaxFall
    /\ ticks' = ticks + dt \div 10
    /\ Install(u.s)
    /\ telemetry' = get_telemetry(u.s)
    /\ step' = [op |-> "update", dt |-> dt, air_density |-> 0,
                gravity |-> StandardGravity, loc |-> u.loc]

\* A step that stays above the ground.
Fall ==
    \E dt \in FallDts :
        \E u \in {update(Self, dt, 0, StandardGravity)} :
            u.loc.p_int[2] >= 0 /\ Called(u, dt)

\* A step that ends in the ground collision.
Land ==
    \E dt \in FallDts :
        \E u \in {update(Self, dt, 0, StandardGravity)} :
            u.loc.p_int[2] < 0 /\ Called(u, dt)

FreeFallNext == Fall \/ Land

FreeFallSpec == FreeFallInit /\ [][FreeFallNext]_vars

---------------------------------------------------------------------------
(* calculate_drag as a function of the velocity, the drag coefficient and
   the air density. *)

\* Speeds of 0, 0.05, 0.1 (the threshold), 0.11, 0.13, 3, 5, 7, 13 and
\* 50 m/s, each with an integral magnitude.
DragVelocities ==
    {Zero3, <<5, 0, 0>>, <<3, 4, 0>>, <<0, 0, -5>>,
     <<10, 0, 0>>, <<6, 8, 0>>, <<0, -10, 0>>,
     <<11, 0, 0>>, <<0, 5, 12>>,
     <<100, 200, 200>>, <<300, -400, 0>>, <<-200, 300, -600>>,
     <<1200, -500, 0>>, <<0, -5000, 0>>}
DragCoefficients == {MinDragCoefficient, InitDragCoefficient, MaxDragCoefficient}
\* Vacuum, the telemetry density, main's upper limit 5.0, and 1000 kg/m^3,
\* at which the drag near the threshold speed exceeds 1 N.
DragDensities == {0, TelemetryAirDensity, 5000, 1000000}

DragInit ==
    \E v \in DragVelocities, c \in DragCoefficients :
        /\ Holds([NewRocket EXCEPT !.velocity = v, !.drag_coefficient = c])
        /\ telemetry = NoTelemetry
        /\ step = NoStep("init")
        /\ ticks = 0

\* drag = self.calculate_drag(air_density); the densest medium is applied
\* to the speeds for which the product fits the integer width.
Drag ==
    \E air_density \in DragDensities :
        /\ air_density <= 5000 \/ Dot(velocity, velocity) <= 2000
        /\ step' = [op |-> "calculate_drag", air_density |-> air_density,
                    drag |-> calculate_drag(Self, air_density)]
        /\ UNCHANGED <<rocket, telemetry, ticks>>

DragSpec == DragInit /\ [][Drag]_vars

---------------------------------------------------------------------------
(* The end of a burn: one Rocket object, from a state with little fuel left
   and the throttle low, followed until its tank is empty.  The driver
   pauses and moves the throttle but keeps thrust > 0; ticks is not used. *)

\* Fuel left: 1.5 kg, 1 kg, 0.1 kg.
BurnFuels == {15, 10, 1}
\* Throttle settings the driver moves between.
BurnThrusts == {ThrottleStep, 2 * ThrottleStep, 3 * ThrottleStep}
\* dt of a running frame: 0.1 s, 1 s.
BurnDts == {1, 10}

BurnInit ==
    \E t \in BurnThrusts, f \in BurnFuels :
        /\ Holds([NewRocket EXCEPT !.thrust = t, !.fuel_mass = f,
                                   !.mass = NewRocket.dry_mass + f])
        /\ telemetry = NoTelemetry
        /\ step = NoStep("init")
        /\ ticks = 0

\* telemetry = rocket.update(dt, air_density, gravity) of main's loop.
Returned(dt, air_density) ==
    /\ \E u \in {update(Self, dt, air_density, StandardGravity)} :
           /\ Install(u.s)
           /\ telemetry' = get_telemetry(u.s)
           /\ step' = [op |-> "update", dt |-> dt, air_density |-> air_density,
                       gravity |-> StandardGravity, loc |-> u.loc]
    /\ UNCHANGED ticks

\* A frame of the running simulation: dt > 0.
Step ==
    \E dt \in BurnDts, air_density \in AirDensities :
        fuel_mass > 0 /\ Returned(dt, air_density)

\* A frame of the paused simulation: dt = 0.
Pause ==
    \E air_density \in AirDensities :
        fuel_mass > 0 /\ Returned(0, air_density)

\* Key A, released before the throttle reaches 0.
ThrottleDown ==
    /\ fuel_mass > 0
    /\ throttle_down(thrust) \in BurnThrusts
    /\ Install([Self EXCEPT !.thrust = throttle_down(@)])
    /\ step' = NoStep("K_a")
    /\ UNCHANGED <<telemetry, ticks>>

\* Key D.
ThrottleUp ==
    /\ fuel_mass > 0
    /\ throttle_up(thrust) \in BurnThrusts
    /\ Install([Self EXCEPT !.thrust = throttle_up(@)])
    /\ step' = NoStep("K_d")
    /\ UNCHANGED <<telemetry, ticks>>

BurnNext == Step \/ Pause \/ ThrottleDown \/ ThrottleUp

\* main calls update on every frame, and the simulation is not paused
\* forever: steps with dt > 0 keep occurring.
BurnSpec == BurnInit /\ [][BurnNext]_vars /\ WF_vars(Step)

---------------------------------------------------------------------------
(* Properties. *)

IsUpdate == step.op = "update"
IsStep == step.op = "update" /\ step.dt > 0

\* Engine phase of a state.
Phase ==
    IF fuel_mass > 0
    THEN (IF thrust > 0 THEN "POWERED" ELSE "IDLE")
    ELSE (IF thrust > 0 THEN "DRY_THROTTLE" ELSE "FLAMEOUT")

\* C1: once fuel_mass is 0 the thrust is 0; fuel_mass stays 0 until reset
\* (C9), so this is the irreversibility of flameout as a state invariant.
C1_FlameoutIrreversible == fuel_mass = 0 => thrust = 0

\* C2: in every reachable state mass == dry_mass + fuel_mass and
\* fuel_mass >= 0.
C2_MassInvariant == mass = dry_mass + fuel_mass /\ fuel_mass >= 0

\* C2 witness: a burning step that emptied the tank after a dry-mass write.
C2_Witness ==
    /\ IsStep
    /\ fuel_mass = 0
    /\ dry_mass # InitDryMass
    /\ mass = dry_mass

\* C3 as stated: every reachable state is POWERED or FLAMEOUT.
C3_TwoPhases ==
    \/ thrust > 0 /\ fuel_mass > 0
    \/ fuel_mass = 0 /\ thrust = 0

\* C3 amended: an update call changes the engine phase only from POWERED to
\* FLAMEOUT; every other phase change is a throttle write (A, D) or the
\* reset, and a throttle write never refills the tank.
C3_PhaseTransitions ==
    [][/\ step'.op = "update" =>
              \/ Phase' = Phase
              \/ Phase = "POWERED" /\ Phase' = "FLAMEOUT"
       /\ Phase' # Phase /\ step'.op # "update" => step'.op \in {"K_a", "K_d", "K_r"}
       /\ step'.op \in {"K_a", "K_d"} => ((fuel_mass = 0) <=> (fuel_mass' = 0))]_vars

\* C3 witness: the first call of a behaviour, made in phase POWERED, ended
\* in FLAMEOUT.
C3_Witness == IsStep /\ ticks = 1 /\ Phase = "FLAMEOUT"

\* C4: max_q never decreases except by reset, and a step with dt > 0 sets
\* it to max(old max_q, 0.5 * air_density * |velocity|^2) of the velocity
\* before integration.
C4_MaxQWatermark ==
    [][/\ step'.op # "K_r" => max_q' >= max_q
       /\ step'.op = "update" /\ step'.dt > 0 =>
              max_q' = Max(max_q, MulDivR(Dot(velocity, velocity),
                                          step'.air_density, 200000))
       /\ max_q' < max_q => step'.op = "K_r" /\ max_q' = 0]_vars

\* C4 witness: a step in vacuum that kept a positive peak.
C4_Witness == IsStep /\ step.air_density = 0 /\ max_q > 0

\* C5: a step whose integration leaves position.y < 0 and velocity.y < 0
\* ends with position.y == 0, velocity.y == -0.3 * that velocity.y and the
\* horizontal components multiplied by 0.7.
C5_GroundBounce ==
    IsStep /\ step.loc.p_int[2] < 0 /\ step.loc.v_int[2] < 0 =>
        /\ position[2] = 0
        /\ velocity[2] = MulDivR(-step.loc.v_int[2], 3, 10)
        /\ velocity[1] = MulDivR(step.loc.v_int[1], 7, 10)
        /\ velocity[3] = MulDivR(step.loc.v_int[3], 7, 10)

\* C5 witness: a bounce with a horizontal velocity component.
C5_Witness ==
    /\ IsStep
    /\ step.loc.p_int[2] < 0
    /\ step.loc.v_int[2] < 0
    /\ step.loc.v_int[3] # 0
    /\ velocity[2] > 0

\* C6: update with dt <= 0 leaves every field of the rocket unchanged and
\* returns the telemetry of that state.
C6_NoOpStep ==
    [][step'.op = "update" /\ step'.dt <= 0 =>
           /\ UNCHANGED rocket
           /\ telemetry' = get_telemetry(Self)]_vars

\* C6 witness: a call with negative dt on a rotating rocket whose engine
\* temperature was never recomputed.
C6_Witness ==
    /\ IsUpdate
    /\ step.dt < 0
    /\ angular_velocity # Zero3
    /\ engine_temperature # heat(thrust)

\* C7: pitch, yaw and roll lie in [0, 360).
C7_AngleWrap ==
    /\ 0 <= pitch /\ pitch < 36000
    /\ 0 <= yaw /\ yaw < 36000
    /\ 0 <= roll /\ roll < 36000

\* C8: 0 <= thrust <= max_thrust in every reachable state.
C8_ThrustBounds == 0 <= thrust /\ thrust <= max_thrust

\* C8 witness: the throttle-up key pressed at full throttle.
C8_Witness == step.op = "K_d" /\ thrust = max_thrust /\ ticks >= 2

\* C9: fuel_mass never increases except by reset; a step with dt > 0,
\* thrust > 0 and fuel_mass > 0 sets it to max(0, fuel_mass - rate * dt), and
\* every other update call leaves it unchanged.
C9_FuelUpdateRule ==
    [][/\ step'.op # "K_r" => fuel_mass' <= fuel_mass
       /\ step'.op = "update" =>
              fuel_mass' = IF step'.dt > 0 /\ thrust > 0 /\ fuel_mass > 0
                           THEN Max(0, fuel_mass - fuel_consumption_rate * step'.dt)
                           ELSE fuel_mass]_vars

\* C9 witness: a step of an idle rocket (thrust 0, fuel left).
C9_Witness == IsStep /\ thrust = 0 /\ fuel_mass > 0

\* C10: a step with dt > 0, thrust > 0 and 0 < fuel_mass <= rate * dt ends
\* with fuel_mass == 0, thrust == 0 and mass == dry_mass.
C10_FlameoutTick ==
    [][/\ step'.op = "update"
       /\ step'.dt > 0
       /\ thrust > 0
       /\ 0 < fuel_mass
       /\ fuel_mass <= fuel_consumption_rate * step'.dt
       => fuel_mass' = 0 /\ thrust' = 0 /\ mass' = dry_mass']_vars

\* C10 witness: Scenario C, the tank of 0.1 kg emptied by the first step.
C10_Witness ==
    /\ IsStep
    /\ ticks = 1
    /\ fuel_mass = 0
    /\ thrust = 0
    /\ mass = dry_mass
    /\ telemetry.fuel = 0

\* Scenario B's state: the default rocket at rest, engine on, pointing up.
ScenarioB ==
    /\ thrust = InitThrust
    /\ fuel_mass = 30000
    /\ dry_mass = InitDryMass
    /\ mass = InitDryMass + 30000
    /\ velocity = Zero3
    /\ angular_velocity = Zero3
    /\ pitch = 0 /\ yaw = 0 /\ roll = 0

\* ((t - m * g) / m) * dt: the vertical velocity a rocket of mass m at rest
\* gains in dt under an upward thrust t and gravity g, in 0.01 m/s.
VyGain(t, m, g, dt) == RDiv(MulDivR(t - RDiv(g * m, 1000), 1000, m) * dt, 10)

\* C11 as stated: one step of Scenario B (dt = 1, air_density = 0, gravity =
\* 9.81) leaves velocity.y == (75000 - 5000 * 9.81) / 5000, the acceleration
\* of the mass before the step, to within the resolution 0.01 m/s.
C11_ScenarioB ==
    [][/\ ScenarioB
       /\ step'.op = "update"
       /\ step'.dt = 10
       /\ step'.air_density = 0
       /\ step'.gravity = StandardGravity
       => Abs(velocity'[2] - VyGain(thrust, mass, StandardGravity, 10)) <= 1]_vars

\* C11 amended: a step with dt > 0 in vacuum of a rocket at rest in neutral
\* orientation, with thrust > 0 and more fuel than the step burns, that
\* stays above the ground, leaves velocity.y == ((thrust - m * g) / m) * dt
\* for the mass m == dry_mass + fuel_mass - rate * dt after the burn.
C11_BurnThenAccelerate ==
    [][/\ step'.op = "update"
       /\ step'.dt > 0
       /\ step'.air_density = 0
       /\ velocity = Zero3
       /\ angular_velocity = Zero3
       /\ pitch = 0 /\ yaw = 0 /\ roll = 0
       /\ thrust > 0
       /\ fuel_mass > fuel_consumption_rate * step'.dt
       /\ step'.loc.p_int[2] >= 0
       => /\ velocity'[1] = 0
          /\ velocity'[3] = 0
          /\ velocity'[2] =
                 VyGain(thrust,
                        dry_mass + fuel_mass - fuel_consumption_rate * step'.dt,
                        step'.gravity, step'.dt)]_vars

\* C11 witness: Scenario B as the first call of a behaviour; the step burned
\* 5 kg and left velocity.y == 5.21 m/s.
C11_Witness ==
    /\ IsStep
    /\ ticks = 1
    /\ step.dt = 10
    /\ step.air_density = 0
    /\ thrust = InitThrust
    /\ mass = InitDryMass + 30000 - 50
    /\ velocity = <<0, 521, 0>>

\* C12: in free fall from rest (thrust 0, air_density 0, constant mass,
\* gravity g) above the ground, velocity.y == -g * t after the steps have
\* covered the time t, whatever step sizes the time was divided into.
C12_FreeFall ==
    position[2] > 0 => velocity = <<0, -StandardGravity * ticks, 0>>

\* C12 witness: Scenario A (one step of 1 s, velocity.y == -9.81) followed
\* by a step of 2 s, still above the ground.
C12_Witness ==
    /\ IsStep
    /\ ticks = 3
    /\ step.dt = 20
    /\ position[2] > 0
    /\ velocity = <<0, -2943, 0>>
    /\ thrust = 0
    /\ fuel_mass > 0

\* 0.5 * air_density * |velocity|^2 * drag_coefficient * reference_area of
\* the current state, in N.
DragMagnitude(air_density) ==
    MulDivR(MulDivR(Dot(velocity, velocity), air_density, 200000),
            drag_coefficient * reference_area, 10000)

\* C13: calculate_drag returns the zero vector whenever |velocity| <= 0.1,
\* for every air_density; above 0.1 it returns the vector of magnitude
\* 0.5 * air_density * |v|^2 * drag_coefficient * reference_area along
\* -velocity / |velocity| (each component the nearest whole newton, the
\* magnitude to within 2 N + 0.1 %).
C13_DragThreshold ==
    step.op = "calculate_drag" =>
        IF Dot(velocity, velocity) <= 10 * 10
        THEN step.drag = Zero3
        ELSE /\ \A i \in 1..3 :
                    Abs(2 * (step.drag[i] * Norm(velocity)
                             + DragMagnitude(step.air_density) * velocity[i]))
                        <= Norm(velocity)
             /\ Abs(Norm(step.drag) - DragMagnitude(step.air_density))
                    <= 2 + DragMagnitude(step.air_density) \div 1000
             /\ Dot(step.drag, velocity) <= 0

\* C13 witness: a drag of 69 N against the velocity (3, -4, 0) m/s at the
\* density 1.225 and the default drag coefficient.
C13_Witness ==
    /\ step.op = "calculate_drag"
    /\ velocity = <<300, -400, 0>>
    /\ step.air_density = TelemetryAirDensity
    /\ drag_coefficient = InitDragCoefficient
    /\ step.drag = <<-41, 55, 0>>

\* 0.5 * 1.225 * |velocity|^2 of the current state, in 0.01 Pa.
ReferencePressure == MulDivR(Dot(velocity, velocity), 1225, 200000)

\* ReferencePressure * drag_coefficient * reference_area above 0.1 m/s.
ReferenceDrag ==
    IF Dot(velocity, velocity) <= 10 * 10 THEN 0
    ELSE MulDivR(ReferencePressure, drag_coefficient * reference_area, 10000)

\* C14: the snapshot update returns reports the state after the call at the
\* fixed density 1.225: dynamic_pressure == 0.5 * 1.225 * |velocity|^2 and
\* drag == that * drag_coefficient * reference_area (0 up to 0.1 m/s),
\* whatever air_density was passed; a dt <= 0 call that follows another
\* update call returns the same snapshot, whatever its air_density.
C14_TelemetryReferenceDensity ==
    [][step'.op = "update" =>
           /\ telemetry'.dynamic_pressure = ReferencePressure'
           /\ Abs(telemetry'.drag - ReferenceDrag') <= 2 + ReferenceDrag' \div 1000
           /\ telemetry'.velocity = Norm(velocity')
           /\ telemetry'.altitude = position'[2]
           /\ telemetry'.fuel = fuel_mass'
           /\ step.op = "update" /\ step'.dt <= 0 => telemetry' = telemetry]_vars

\* C14 witness: a paused call with air_density 1.225 after a step in vacuum
\* that left the rocket moving; both snapshots report the pressure and the
\* drag at 1.225 although max_q is 0.
C14_Witness ==
    /\ IsUpdate
    /\ step.dt <= 0
    /\ step.air_density = 1225
    /\ ticks = 2
    /\ max_q = 0
    /\ telemetry.dynamic_pressure > 0
    /\ telemetry.drag > 0

\* C15: in every snapshot returned by update the reported max_q is at
\* least the reported dynamic_pressure.
C15_PeakAboveReading ==
    IsUpdate => telemetry.max_q >= telemetry.dynamic_pressure

\* 300 + (t / max_thrust) * 2000, in K.
HeatProxy(t) == 300 + MulDivR(t, 2000, 200000)

\* C16 as stated: in every snapshot returned by update, paused calls
\* included, temperature == 300 + (thrust / max_thrust) * 2000 for the
\* thrust of the same snapshot, and lies in [300, 2300]. The reported thrust
\* is the norm of thrust * direction, and the direction is a unit vector to
\* 3 parts in 1000 at the resolution of the rotation matrices, so the
\* equality is read to within 6 K of the 2000 K span.
C16_TemperatureOfThrust ==
    IsUpdate =>
        /\ Abs(telemetry.temperature - HeatProxy(telemetry.thrust)) <= 6
        /\ 300 <= telemetry.temperature
        /\ telemetry.temperature <= 2300

\* C16 amended: a step with dt > 0 returns temperature == 300 + (thrust /
\* max_thrust) * 2000 exactly for the thrust after the step, which is the
\* reported thrust to within the 3 parts in 1000 of the direction vector
\* (6 K); a call with dt <= 0 returns the stored engine_temperature
\* unchanged, whatever the throttle is by then; every returned temperature
\* lies in [300, 2300].
C16_TemperatureOfLastStep ==
    [][step'.op = "update" =>
           /\ step'.dt > 0 =>
                  /\ telemetry'.temperature = HeatProxy(thrust')
                  /\ Abs(telemetry'.thrust - thrust') * 1000 <= 3 * thrust'
                  /\ Abs(telemetry'.temperature - HeatProxy(telemetry'.thrust)) <= 6
           /\ step'.dt <= 0 =>
                  /\ engine_temperature' = engine_temperature
                  /\ telemetry'.temperature = engine_temperature
           /\ 300 <= telemetry'.temperature
           /\ telemetry'.temperature <= 2300]_vars

\* C16 witness: a paused call after a step and a throttle write; the
\* snapshot reports the temperature of the thrust the step ran with.
C16_Witness ==
    /\ IsUpdate
    /\ step.dt = 0
    /\ ticks = 3
    /\ telemetry.temperature > 300
    /\ telemetry.thrust > 0
    /\ Abs(telemetry.temperature - HeatProxy(telemetry.thrust)) >= 10

\* C17: on the step that burns the last fuel (thrust > 0 and fuel_mass > 0
\* before, fuel_mass == 0 after) the thrust vector composed into the total
\* force is zero (in vacuum the acceleration is gravity alone),
\* engine_temperature becomes 300 and no exhaust hint is emitted.
C17_FlameoutBeforeForces ==
    [][/\ step'.op = "update"
       /\ thrust > 0
       /\ fuel_mass > 0
       /\ fuel_mass' = 0
       => /\ step'.loc.thrust_vector = Zero3
          /\ step'.air_density = 0 =>
                 /\ step'.loc.total_force = <<0, RDiv(-step'.gravity * dry_mass, 1000), 0>>
                 /\ step'.loc.acceleration = <<0, -step'.gravity, 0>>
          /\ engine_temperature' = 300
          /\ telemetry'.temperature = 300
          /\ ~step'.loc.emitted]_vars

\* C17 witness: a rocket at full throttle whose first step, in vacuum,
\* burned its last 5 kg: it only fell.
C17_Witness ==
    /\ IsStep
    /\ ticks = 1
    /\ step.air_density = 0
    /\ step.dt = 10
    /\ fuel_mass = 0
    /\ step.loc.thrust_vector = Zero3
    /\ step.loc.acceleration = <<0, -981, 0>>
    /\ velocity = <<0, -981, 0>>
    /\ engine_temperature = 300
    /\ ~step.loc.emitted

\* C18: position.y >= 0 in every state reachable from the default rocket,
\* so the altitude a snapshot reports is never negative; and a step whose
\* integration leaves position.y < 0 (the clamp) always has velocity.y < 0
\* there, so it ends at position.y == 0 with velocity.y reflected upward.
C18_AboveGround ==
    /\ position[2] >= 0
    /\ IsUpdate => telemetry.altitude = position[2]
    /\ IsStep /\ step.loc.p_int[2] < 0 =>
           /\ step.loc.v_int[2] < 0
           /\ position[2] = 0
           /\ velocity[2] >= 0
    /\ IsStep /\ step.loc.p_int[2] >= 0 =>
           /\ position = step.loc.p_int
           /\ velocity = step.loc.v_int

\* C18 witness: a snapshot of altitude 0 returned by the step that hit the
\* ground and bounced.
C18_Witness ==
    /\ IsStep
    /\ step.loc.p_int[2] < 0
    /\ position[2] = 0
    /\ telemetry.altitude = 0
    /\ velocity[2] > 0
    /\ telemetry.velocity > 0

\* C19: if steps with dt > 0 keep occurring and the driver keeps thrust > 0
\* while fuel remains, fuel_mass eventually reaches 0 and the rocket is in
\* flameout: thrust == 0 and mass == dry_mass.
C19_EventualFlameout ==
    <>(fuel_mass = 0 /\ thrust = 0 /\ mass = dry_mass)

\* C19 witness: flameout reached by the third step of 0.1 s of a rocket
\* that started with 1.5 kg of fuel.
C19_Witness ==
    /\ IsStep
    /\ step.dt = 1
    /\ fuel_mass = 0
    /\ thrust = 0
    /\ mass = dry_mass
    /\ telemetry.fuel = 0
    /\ telemetry.thrust = 0
    /\ structural_stress > 0
    /\ velocity[2] < -200

====
